---- MODULE Spec2Model ----
(***************************************************************************)
(* The authenticated session of iqua_softener.iqua.IquaSoftener: the       *)
(* token fields, the requests.Session and its Authorization header, the    *)
(* token file of save_tokens/load_tokens, the request pipeline            *)
(* (_ensure_authenticated, _login, _refresh_token, _set_tokens, _request), *)
(* and two callers of the pipeline: _get_device_id with its cache of the   *)
(* device id, and set_water_shutoff_valve.                                 *)
(*                                                                         *)
(* An optional Python value (None or a value) is a set of at most one      *)
(* element: None is {} and a value v is {v}.                               *)
(*                                                                         *)
(* __init__ stores the refresh token in the instance attribute             *)
(* self._refresh_token (line 75), which hides the method _refresh_token    *)
(* (line 328) on every instance: the expression self._refresh_token()      *)
(* calls the attribute's value, a str or None, and raises TypeError.  The  *)
(* method body runs only when the function is taken from the class,        *)
(* IquaSoftener._refresh_token(client).                                    *)
(***************************************************************************)
EXTENDS Integers, Sequences, FiniteSets, TLC

VARIABLES
    access_token,       \* self._access_token: optional access token
    refresh_token,      \* self._refresh_token: optional refresh token
    user_id,            \* self._user_id: optional user id
    access_expires_at,  \* self._access_expires_at: optional epoch seconds
    has_session,        \* self._session is not None
    auth_header,        \* self._session.headers["Authorization"], optional
    jwt,                \* whether "import jwt" succeeded (PyJWT importable)
    now,                \* time.time()
    file,               \* the token files, by path: optional JSON object
    saved,              \* by path: the token fields save_tokens wrote there
    server_ok,          \* the cloud API has recovered for good (see ServerRecovers)
    device_id,          \* self._device_id: optional cached device id
    call                \* by caller: the operation it is executing

vars == <<access_token, refresh_token, user_id, access_expires_at,
          has_session, auth_header, jwt, now, file, saved, server_ok,
          device_id, call>>

tokenVars == <<access_token, refresh_token, user_id, access_expires_at>>

clientVars == <<access_token, refresh_token, user_id, access_expires_at,
                has_session, auth_header>>

-----------------------------------------------------------------------------
(* Bounds of the model *)

MaxTime == 3

MaxExp == 62

(* Program constant: the safety margin of "int(exp) - 60" *)
ExpiryMargin == 60

-----------------------------------------------------------------------------
(* Values *)

None == {}

Some(v) == {v}

The(o) == CHOOSE v \in o : TRUE

Opt(S) == {None} \cup {Some(v) : v \in S}

Times == 0..MaxTime

\* exp claims the server puts in its tokens
ExpClaims == {0, MaxExp}

\* An access token: a string that PyJWT cannot decode ("bad"), a JWT whose
\* payload has no exp claim ("noexp"), or a JWT with exp claim `exp`.
AccessTokens ==
    {[jwt |-> "bad", exp |-> 0], [jwt |-> "noexp", exp |-> 0]}
        \cup {[jwt |-> "exp", exp |-> e] : e \in ExpClaims}

RefreshTokens == {"r1"}

UserIds == {"u1"}

Callers == {"A", "B"}

Paths == {"p1", "p2"}

\* HTTP statuses the server answers a device call with
DeviceStatuses == {200, 204, 302, 401, 500}

\* HTTP statuses the server answers login and refresh with
AuthStatuses == {200, 401, 500}

\* The JSON body of a 200 answer to login or refresh; data.get(k) of a
\* missing key is None.
AuthBodies ==
    [access_token : Opt(AccessTokens), refresh_token : Opt(RefreshTokens),
     user_id : Opt(UserIds)]

-----------------------------------------------------------------------------
(* jwt.decode(access_token, options={"verify_signature": False}):          *)
(* None when it raises, else the payload; payload.exp is decoded.get("exp") *)
JwtDecode(tok) ==
    IF tok = None \/ The(tok).jwt = "bad" THEN None
    ELSE Some([exp |-> IF The(tok).jwt = "exp" THEN Some(The(tok).exp)
                       ELSE None])

\* The expiry without the safety margin: int(exp)
DerivedExpiryNoMargin(exp) == exp

\* int(exp) - 60
DerivedExpiry(exp) == exp - ExpiryMargin

\* The value of self._access_expires_at after lines 285-292 of _set_tokens
NewExpiry(access, old) ==
    IF ~jwt THEN old
    ELSE IF JwtDecode(access) = None THEN None
    ELSE LET exp == The(JwtDecode(access)).exp
         IN IF exp # None /\ The(exp) # 0 THEN Some(DerivedExpiry(The(exp)))
            ELSE old

Bearer(tok) == <<"Bearer", tok>>

\* _set_tokens(access_token, refresh_token)
SetTokens(access, refresh) ==
    /\ access_token' = access
    /\ refresh_token' = refresh
    /\ access_expires_at' = NewExpiry(access, access_expires_at)
    /\ has_session' = TRUE
    /\ auth_header' = IF access # None THEN Some(Bearer(The(access)))
                      ELSE auth_header

\* A token of unknown expiry counts as expired
IsTokenExpiredWhenUnknown(t) ==
    IF access_token = None THEN TRUE
    ELSE IF access_expires_at = None THEN TRUE
    ELSE t >= The(access_expires_at)

\* _is_token_expired() when time.time() is t
IsTokenExpired(t) ==
    IF access_token = None THEN TRUE
    ELSE IF access_expires_at = None THEN FALSE
    ELSE t >= The(access_expires_at)

-----------------------------------------------------------------------------
(* The token file: a JSON object with keys of save_tokens *)

Keys == {"access_token", "refresh_token", "user_id", "_access_expires_at"}

\* json.dump of a str or None, and of an int or None
JsonOfStr(o) == IF o = None THEN <<"null">> ELSE <<"string", The(o)>>

JsonOfInt(o) == IF o = None THEN <<"null">> ELSE <<"number", The(o)>>

\* json.load of a JSON value
JsonLoad(j) == IF j[1] = "null" THEN None ELSE Some(j[2])

\* data.get(key)
DataGet(data, key) == IF key \in DOMAIN data THEN JsonLoad(data[key]) ELSE None

\* The object save_tokens dumps (lines 229-234)
Serialize ==
    ("access_token" :> JsonOfStr(access_token))
        @@ ("refresh_token" :> JsonOfStr(refresh_token))
        @@ ("user_id" :> JsonOfStr(user_id))
        @@ ("_access_expires_at" :> JsonOfInt(access_expires_at))

TokenFields ==
    [access |-> access_token, refresh |-> refresh_token, user |-> user_id,
     expires |-> access_expires_at]

\* Expiry values a token file may hold
ExpiryValues == 0..(MaxExp - ExpiryMargin)

JsonValuesOf(key) ==
    CASE key = "access_token" -> {JsonOfStr(o) : o \in Opt(AccessTokens)}
      [] key = "refresh_token" -> {JsonOfStr(o) : o \in Opt(RefreshTokens)}
      [] key = "user_id" -> {JsonOfStr(o) : o \in Opt(UserIds)}
      [] key = "_access_expires_at" -> {JsonOfInt(o) : o \in Opt(ExpiryValues)}

\* The JSON object with the keys that are present (None: key missing)
MkBlob(a, r, u, e) ==
    [k \in {kk \in Keys : \/ kk = "access_token" /\ a # None
                          \/ kk = "refresh_token" /\ r # None
                          \/ kk = "user_id" /\ u # None
                          \/ kk = "_access_expires_at" /\ e # None} |->
        CASE k = "access_token" -> The(a)
          [] k = "refresh_token" -> The(r)
          [] k = "user_id" -> The(u)
          [] k = "_access_expires_at" -> The(e)]

\* Every JSON object over a subset of the keys, with values of the types
\* save_tokens writes
Blobs ==
    {MkBlob(a, r, u, e) :
        a \in Opt(JsonValuesOf("access_token")),
        r \in Opt(JsonValuesOf("refresh_token")),
        u \in Opt(JsonValuesOf("user_id")),
        e \in Opt(JsonValuesOf("_access_expires_at"))}

\* The token files a client of the request pipeline finds on disk
StoredBlobs ==
    {b \in Blobs :
        \/ /\ DOMAIN b = {"access_token"}
           /\ b["access_token"] = JsonOfStr(Some([jwt |-> "noexp", exp |-> 0]))
        \/ /\ DOMAIN b = Keys
           /\ b["access_token"] = JsonOfStr(Some([jwt |-> "exp", exp |-> MaxExp]))
           /\ b["refresh_token"] = JsonOfStr(Some("r1"))
           /\ b["user_id"] = JsonOfStr(Some("u1"))
           /\ b["_access_expires_at"] = JsonOfInt(Some(MaxExp - ExpiryMargin))}

-----------------------------------------------------------------------------
(* Devices: the list GET /devices answers with, and the valve command *)

DeviceIds == {"d1", "d2"}

\* The serial numbers of the server's devices; a device without
\* properties.serial_number.value compares like another serial
Serials == {"s1", "s2"}

\* self._device_serial_number
DeviceSerial == "s1"

Device == [id : DeviceIds, serial : Serials]

\* The lists of devices, each id at most once
DeviceLists ==
    {l \in UNION {[1..n -> Device] : n \in 0..Cardinality(DeviceIds)} :
        \A i, j \in 1..Len(l) : l[i].id = l[j].id => i = j}

\* The argument of set_water_shutoff_valve
ValveStates == {0, 1, 2}

\* The loop of _get_device_id takes the first device of any serial
FirstDeviceOfAny(devices) ==
    IF devices = <<>> THEN None ELSE Some(devices[1].id)

\* The loop of _get_device_id (256-264): the id of the first device whose
\* serial is the configured one
FirstDevice(devices) ==
    LET m == {i \in 1..Len(devices) : devices[i].serial = DeviceSerial}
    IN IF m = {} THEN None
       ELSE Some(devices[CHOOSE i \in m : \A j \in m : i <= j].id)

\* The cache is never consulted
CacheIgnored(cached) == FALSE

\* _get_device_id lines 251-252: a cached id is returned at once
CacheHit(cached) == cached # None

\* The action of the command whatever the state
ValveActionOpen(state) == "open"

\* set_water_shutoff_valve line 156
ValveAction(state) == IF state = 1 THEN "close" ELSE "open"

-----------------------------------------------------------------------------
(* Operations.  call[c] is the operation caller c runs: its program        *)
(* counter, the network calls it has issued (log), how it ended (result,   *)
(* raiser, status), the client state when it began or, for a request, when *)
(* its gate ran (snap), the header and                                     *)
(* token of the device call it sent (sent), the body of the last           *)
(* successful login or refresh it received (recv), whether the condition   *)
(* of line 371 held (recover).  A request made by _get_device_id or        *)
(* set_water_shutoff_valve names that operation (outer) and what the       *)
(* request is for (stage: "resolve" lists the devices, "command" sends the *)
(* valve command), the device list received (devices), the device id       *)
(* resolved (value), the valve state asked for (arg) and the action of the *)
(* command sent (action).                                                  *)

Snapshot ==
    [access |-> access_token, refresh |-> refresh_token, user |-> user_id,
     expires |-> access_expires_at, header |-> auth_header,
     expired |-> IsTokenExpired(now), healthy |-> server_ok,
     device |-> device_id]

IdleCall ==
    [pc |-> "idle", op |-> "none", log |-> <<>>, result |-> "none",
     raiser |-> "none", status |-> None, att |-> 0, path |-> None,
     snap |-> Snapshot, sent |-> None, recv |-> None, recover |-> FALSE,
     outer |-> "none", stage |-> "none", devices |-> None, value |-> None,
     arg |-> None, action |-> None]

Ready(c) == call[c].pc \in {"idle", "done"}

Begin(op) == [IdleCall EXCEPT !.op = op, !.pc = "run"]

Raise(rec, exc, by) ==
    [rec EXCEPT !.pc = "done", !.result = exc, !.raiser = by]

Return(rec) == [rec EXCEPT !.pc = "done", !.result = "ok"]

\* What the expression self._refresh_token() does on an instance: the
\* attribute of line 75 (a str or None) is called, never the method.
SelfRefreshTokenCall == "TypeError"

\* The 200 bodies the server may answer login/refresh with: any body, and
\* once it has recovered a body with an access token
BodiesNow == IF server_ok THEN {b \in AuthBodies : b.access_token # None}
             ELSE AuthBodies

\* The failures of a login/refresh POST: no response (RequestException) or
\* a status other than 200
AuthFailures == {None} \cup {Some(s) : s \in AuthStatuses \ {200}}

\* A recovered server accepts the configured credentials
LoginFailures == IF server_ok THEN {} ELSE AuthFailures

\* The failed call logs the client out
AuthFailedLogsOut ==
    /\ access_token' = None
    /\ auth_header' = None
    /\ UNCHANGED <<refresh_token, user_id, access_expires_at, has_session>>

\* A login or refresh whose POST failed raises (317-321, 340-341) before
\* data is read and _set_tokens is called: the client is as it was
AuthFailed == UNCHANGED clientVars

\* _request(method, path) is called
Request(c) ==
    /\ Ready(c)
    /\ call' = [call EXCEPT ![c] = [Begin("request") EXCEPT !.pc = "gate"]]
    /\ UNCHANGED <<clientVars, jwt, now, file, saved, server_ok, device_id>>

\* _ensure_authenticated (348-357) up to its first network call: the test
\* of _is_token_expired, then self._refresh_token() or the POST of _login
\* (310-314)
EnsureAuthenticated(c) ==
    /\ call[c].pc = "gate"
    /\ LET rec == [call[c] EXCEPT !.snap = Snapshot]
       IN IF ~IsTokenExpired(now)
          THEN /\ call' = [call EXCEPT ![c] = [rec EXCEPT !.pc = "send"]]
               /\ UNCHANGED has_session
          ELSE IF refresh_token # None
          THEN /\ call' = [call EXCEPT ![c] =
                     Raise(rec, SelfRefreshTokenCall, "self._refresh_token()")]
               /\ UNCHANGED has_session
          ELSE /\ call' = [call EXCEPT ![c] =
                     [rec EXCEPT !.pc = "login_wait", !.att = 1,
                                 !.log = <<"login">>]]
               /\ has_session' = TRUE
    /\ UNCHANGED <<tokenVars, auth_header, jwt, now, file, saved, server_ok, device_id>>

\* The except clause of _ensure_authenticated (356-357) calls _login again
\* when the first attempt of the gate raised IquaSoftenerException
LoginRetries(att) == att < 2

\* The answer to the POST of _login (315-326), inside _ensure_authenticated
LoginRecv(c) ==
    /\ call[c].pc = "login_wait"
    /\ \/ /\ LoginFailures # {}
          /\ IF LoginRetries(call[c].att)
             THEN call' = [call EXCEPT ![c].att = @ + 1,
                                       ![c].log = Append(@, "login")]
             ELSE call' = [call EXCEPT ![c] =
                               Raise(@, "IquaSoftenerException", "_login")]
          /\ AuthFailed
       \/ \E body \in BodiesNow :
             /\ SetTokens(body.access_token, body.refresh_token)
             /\ user_id' = body.user_id
             /\ call' = [call EXCEPT ![c].pc = "send", ![c].recv = Some(body)]
    /\ UNCHANGED <<jwt, now, file, saved, server_ok, device_id>>

\* _request lines 362-370: _ensure_session and the device call is sent
DeviceSend(c) ==
    /\ call[c].pc = "send"
    /\ has_session' = TRUE
    /\ call' = [call EXCEPT ![c].pc = "device_wait",
                            ![c].log = Append(@, "device"),
                            ![c].sent = Some([auth |-> auth_header,
                                              tok |-> access_token]),
                            ![c].action =
                                IF call[c].stage = "command"
                                THEN Some(ValveAction(The(call[c].arg)))
                                ELSE None]
    /\ UNCHANGED <<tokenVars, auth_header, jwt, now, file, saved, server_ok, device_id>>

\* The answers to a device call: no response (the transport raises) or a
\* status; a recovered server answers 200
DeviceAnswers ==
    IF server_ok THEN {Some(200)}
    ELSE {None} \cup {Some(s) : s \in DeviceStatuses}

\* Only server errors raise
RaiseForStatusServerOnly(s) == 500 <= s /\ s < 600

\* Response.raise_for_status() raises HTTPError for 4xx and 5xx only
RaiseForStatusRaises(s) == 400 <= s /\ s < 600

\* _request lines 370-381: what the answer r to the device call makes of
\* the request rec
RequestOutcome(rec, r) ==
    IF r = None THEN Raise(rec, "RequestException", "session.request")
    ELSE LET got == [rec EXCEPT !.status = r]
         IN IF The(r) = 401 /\ refresh_token # None
            THEN Raise([got EXCEPT !.recover = TRUE],
                       SelfRefreshTokenCall, "self._refresh_token()")
            ELSE IF The(r) # 200 /\ RaiseForStatusRaises(The(r))
            THEN Raise(got, "HTTPError", "raise_for_status")
            ELSE Return(got)

\* The bodies a response to GET /devices may carry: a JSON object with a
\* device list ("data" missing reads as the empty list, line 274) or no
\* JSON at all
ResponseBodies(rec) ==
    IF rec.stage = "resolve" THEN Opt(DeviceLists) ELSE {None}

\* _get_devices (272-274) and the loop of _get_device_id (256-268) on the
\* response _request returned: the device id found, if any
Resolved(rq, body) ==
    IF rq.stage = "resolve" /\ rq.result = "ok" /\ body # None
    THEN FirstDevice(The(body))
    ELSE None

\* What the caller of _request does with its outcome rq: _request itself
\* nothing; _get_device_id reads the list and returns the id or raises
\* (256-268); set_water_shutoff_valve goes on to send the command (152-159)
\* and then tests the status of the response (160-165)
AfterRequest(rq, body) ==
    IF rq.outer = "none" \/ rq.result # "ok" THEN rq
    ELSE IF rq.stage = "resolve"
    THEN IF body = None THEN Raise(rq, "JSONDecodeError", "_get_devices")
         ELSE LET got == [rq EXCEPT !.devices = body,
                                    !.value = Resolved(rq, body)]
              IN IF got.value = None
                 THEN Raise(got, "IquaSoftenerException", "_get_device_id")
                 ELSE IF rq.outer = "get_device_id" THEN got
                 ELSE [Begin("request") EXCEPT !.pc = "gate",
                           !.outer = rq.outer, !.stage = "command",
                           !.arg = rq.arg, !.value = got.value]
    ELSE IF rq.status # Some(200)
    THEN Raise(rq, "IquaSoftenerException", "set_water_shutoff_valve")
    ELSE rq

\* The answer to the device call: _request lines 370-381, and the rest of
\* the operation that made the request
DeviceRecv(c) ==
    /\ call[c].pc = "device_wait"
    /\ \E r \in DeviceAnswers, body \in ResponseBodies(call[c]) :
          LET rq == RequestOutcome(call[c], r)
              id == Resolved(rq, body)
          IN /\ call' = [call EXCEPT ![c] = AfterRequest(rq, body)]
             /\ device_id' = IF id # None THEN id ELSE device_id
    /\ UNCHANGED <<clientVars, jwt, now, file, saved, server_ok>>

\* _get_device_id() (249-268): the cached id, or a request for the list
GetDeviceId(c) ==
    /\ Ready(c)
    /\ call' = [call EXCEPT ![c] =
           IF CacheHit(device_id)
           THEN Return([Begin("get_device_id") EXCEPT
                           !.outer = "get_device_id", !.value = device_id])
           ELSE [Begin("request") EXCEPT !.pc = "gate",
                     !.outer = "get_device_id", !.stage = "resolve"]]
    /\ UNCHANGED <<clientVars, jwt, now, file, saved, server_ok, device_id>>

\* set_water_shutoff_valve(state) (146-165) up to its first request: the
\* check of the state, then _get_device_id
SetWaterShutoffValve(c, state) ==
    /\ Ready(c)
    /\ call' = [call EXCEPT ![c] =
           IF state \notin {0, 1}
           THEN Raise([Begin("set_water_shutoff_valve") EXCEPT
                          !.outer = "set_water_shutoff_valve",
                          !.arg = Some(state)],
                      "ValueError", "set_water_shutoff_valve")
           ELSE [Begin("request") EXCEPT !.pc = "gate",
                     !.outer = "set_water_shutoff_valve",
                     !.stage = IF CacheHit(device_id) THEN "command"
                               ELSE "resolve",
                     !.arg = Some(state), !.value = device_id]]
    /\ UNCHANGED <<clientVars, jwt, now, file, saved, server_ok, device_id>>

\* The body of the method _refresh_token (328-337), called as
\* IquaSoftener._refresh_token(client): the check and the POST
RefreshTokenSend(c) ==
    /\ Ready(c)
    /\ IF refresh_token = None
       THEN /\ call' = [call EXCEPT ![c] =
                  Raise(Begin("refresh"), "IquaSoftenerException", "_refresh_token")]
            /\ UNCHANGED has_session
       ELSE /\ call' = [call EXCEPT ![c] =
                  [Begin("refresh") EXCEPT !.pc = "refresh_wait",
                                           !.log = <<"refresh">>]]
            /\ has_session' = TRUE
    /\ UNCHANGED <<tokenVars, auth_header, jwt, now, file, saved, server_ok, device_id>>

\* The answer to the POST of the method _refresh_token (338-346)
RefreshRecv(c) ==
    /\ call[c].pc = "refresh_wait"
    /\ \/ /\ AuthFailures # {}
          /\ call' = [call EXCEPT ![c] =
                          Raise(@, "IquaSoftenerException", "_refresh_token")]
          /\ AuthFailed
       \/ \E body \in BodiesNow :
             /\ SetTokens(body.access_token, body.refresh_token)
             /\ UNCHANGED user_id
             /\ call' = [call EXCEPT ![c] = Return([@ EXCEPT !.recv = Some(body)])]
    /\ UNCHANGED <<jwt, now, file, saved, server_ok, device_id>>

\* client._refresh_token(): the attribute is called (see SelfRefreshTokenCall)
RefreshTokenAttr(c) ==
    /\ Ready(c)
    /\ call' = [call EXCEPT ![c] =
           Raise(Begin("refresh_attr"), SelfRefreshTokenCall,
                 "self._refresh_token()")]
    /\ UNCHANGED <<clientVars, jwt, now, file, saved, server_ok, device_id>>

\* save_tokens(path)
SaveTokens(c, p) ==
    /\ Ready(c)
    /\ file' = [file EXCEPT ![p] = Some(Serialize)]
    /\ saved' = [saved EXCEPT ![p] = Some(TokenFields)]
    /\ call' = [call EXCEPT ![c] = Return([Begin("save") EXCEPT !.path = Some(p)])]
    /\ UNCHANGED <<clientVars, jwt, now, server_ok, device_id>>

\* The name the expiry has in the description of the blob, not in the file
ExpiresKeyOfSpec == "expires_at"

\* The key load_tokens reads the expiry from (line 247)
ExpiresKey == "_access_expires_at"

\* load_tokens(path)
LoadTokens(c, p) ==
    /\ Ready(c)
    /\ IF file[p] = None
       THEN UNCHANGED tokenVars
       ELSE LET data == The(file[p])
            IN /\ access_token' = DataGet(data, "access_token")
               /\ refresh_token' = DataGet(data, "refresh_token")
               /\ user_id' = DataGet(data, "user_id")
               /\ access_expires_at' = DataGet(data, ExpiresKey)
    /\ call' = [call EXCEPT ![c] = Return([Begin("load") EXCEPT !.path = Some(p)])]
    /\ UNCHANGED <<has_session, auth_header, jwt, now, file, saved, server_ok, device_id>>

\* time.time() advances
Tick ==
    /\ now < MaxTime
    /\ now' = now + 1
    /\ UNCHANGED <<clientVars, jwt, file, saved, server_ok, device_id, call>>

\* From now on the server accepts the configured credentials and answers
\* every device call with 200
ServerRecovers ==
    /\ ~server_ok
    /\ \A c \in Callers : Ready(c)
    /\ server_ok' = TRUE
    /\ UNCHANGED <<clientVars, jwt, now, file, saved, device_id, call>>

-----------------------------------------------------------------------------
(* __init__ (62-78): no tokens, no session.  PyJWT is importable or not;   *)
(* the token file p1 is missing or holds an object written earlier.        *)
Init ==
    /\ access_token = None
    /\ refresh_token = None
    /\ user_id = None
    /\ access_expires_at = None
    /\ has_session = FALSE
    /\ auth_header = None
    /\ jwt \in BOOLEAN
    /\ now = 0
    /\ file \in {[p \in Paths |-> IF p = "p1" THEN f ELSE None] :
                    f \in Opt(StoredBlobs)}
    /\ saved = [p \in Paths |-> None]
    /\ server_ok = FALSE
    /\ device_id = None
    /\ call = [c \in Callers |-> IdleCall]

\* One caller: the operations of the client run one after the other
Next ==
    \/ Request("A")
    \/ EnsureAuthenticated("A")
    \/ LoginRecv("A")
    \/ DeviceSend("A")
    \/ DeviceRecv("A")
    \/ RefreshTokenSend("A")
    \/ RefreshRecv("A")
    \/ RefreshTokenAttr("A")
    \/ \E p \in Paths : LoadTokens("A", p)
    \/ Tick

Spec == Init /\ [][Next]_vars

\* The requests of one caller, step by step
RequestSteps ==
    \/ Request("A")
    \/ EnsureAuthenticated("A")
    \/ LoginRecv("A")
    \/ DeviceSend("A")
    \/ DeviceRecv("A")

\* Any history of the client; then the server recovers and the client only
\* makes requests
NextFair ==
    \/ ~server_ok /\ Next
    \/ ServerRecovers
    \/ server_ok /\ (RequestSteps \/ Tick)

\* The caller keeps calling _request, and every network call is answered or
\* times out (timeout=15 and timeout=20), so a request in progress advances
FairSpec == Init /\ [][NextFair]_vars /\ WF_vars(RequestSteps)

-----------------------------------------------------------------------------
(* The token store alone: save_tokens and load_tokens over every token     *)
(* state and every token file.                                             *)

TokenStates ==
    [access : Opt(AccessTokens), refresh : Opt(RefreshTokens),
     user : Opt(UserIds), expires : Opt(ExpiryValues)]

\* A state with the four fields set
FullTokenState ==
    [access |-> Some([jwt |-> "exp", exp |-> MaxExp]), refresh |-> Some("r1"),
     user |-> Some("u1"), expires |-> Some(0)]

\* Either any token state and a file of StoredBlobs (or none) at p1, or the
\* full state and any JSON object at p1; p2 does not exist yet
InitStore ==
    /\ \E s \in TokenStates, b \in Opt(Blobs) :
          /\ \/ b \in Opt(StoredBlobs)
             \/ s = FullTokenState
          /\ access_token = s.access
          /\ refresh_token = s.refresh
          /\ user_id = s.user
          /\ access_expires_at = s.expires
          /\ file = [p \in Paths |-> IF p = "p1" THEN b ELSE None]
    /\ has_session = FALSE
    /\ auth_header = None
    /\ jwt = TRUE
    /\ now = 0
    /\ saved = [p \in Paths |-> None]
    /\ server_ok = FALSE
    /\ device_id = None
    /\ call = [c \in Callers |-> IdleCall]

NextStore ==
    \/ SaveTokens("A", "p2")
    \/ \E p \in Paths : LoadTokens("A", p)

SpecStore == InitStore /\ [][NextStore]_vars

-----------------------------------------------------------------------------
(* The device operations next to the others, at one clock value: PyJWT is  *)
(* importable and the token file p1 holds a full object.                   *)

InitDevice ==
    /\ access_token = None
    /\ refresh_token = None
    /\ user_id = None
    /\ access_expires_at = None
    /\ has_session = FALSE
    /\ auth_header = None
    /\ jwt = TRUE
    /\ now \in {0, MaxTime}
    /\ file \in {[p \in Paths |-> IF p = "p1" THEN Some(b) ELSE None] :
                    b \in {s \in StoredBlobs : DOMAIN s = Keys}}
    /\ saved = [p \in Paths |-> None]
    /\ server_ok = FALSE
    /\ device_id = None
    /\ call = [c \in Callers |-> IdleCall]

NextDevice ==
    \/ Request("A")
    \/ EnsureAuthenticated("A")
    \/ LoginRecv("A")
    \/ DeviceSend("A")
    \/ DeviceRecv("A")
    \/ RefreshTokenSend("A")
    \/ RefreshRecv("A")
    \/ RefreshTokenAttr("A")
    \/ \E p \in Paths : LoadTokens("A", p)
    \/ GetDeviceId("A")
    \/ \E state \in ValveStates : SetWaterShutoffValve("A", state)

SpecDevice == InitDevice /\ [][NextDevice]_vars

-----------------------------------------------------------------------------
(* Two callers share one client, new and without a token: each runs        *)
(* _request once on its own thread, and the steps of the two requests      *)
(* interleave at the network calls.  The class holds no lock.              *)

InitConc ==
    /\ Init
    /\ jwt = TRUE
    /\ file = [p \in Paths |-> None]

NextConc ==
    \/ \E c \in Callers : call[c].pc = "idle" /\ Request(c)
    \/ \E c \in Callers : EnsureAuthenticated(c)
    \/ \E c \in Callers : LoginRecv(c)
    \/ \E c \in Callers : DeviceSend(c)
    \/ \E c \in Callers : DeviceRecv(c)

SpecConc == InitConc /\ [][NextConc]_vars

-----------------------------------------------------------------------------
(* Properties *)

Count(log, x) == Cardinality({i \in 1..Len(log) : log[i] = x})

Done(c, op) == call[c].pc = "done" /\ call[c].op = op

\* The network calls of a request that follow its first device call
AfterFirstDevice(log) ==
    LET i == CHOOSE j \in 1..Len(log) :
                 log[j] = "device" /\ \A k \in 1..(j - 1) : log[k] # "device"
    IN SubSeq(log, i + 1, Len(log))

\* A login or refresh of caller c has just succeeded: the client holds what
\* _set_tokens stored for the body in call[c].recv
JustAuthenticated(c) ==
    /\ call[c].recv # None
    /\ \/ call[c].op = "request" /\ call[c].pc = "send"
       \/ Done(c, "refresh") /\ call[c].result = "ok"

Received(c) == The(call[c].recv).access_token

\* The token fields and the header are what they were when c's operation began
Untouched(c) ==
    /\ access_token = call[c].snap.access
    /\ refresh_token = call[c].snap.refresh
    /\ user_id = call[c].snap.user
    /\ access_expires_at = call[c].snap.expires
    /\ auth_header = call[c].snap.header

\* The gate of c's request found a held access token past its derived
\* expiry, and a refresh token
ExpiredWithRefresh(c) ==
    /\ call[c].op = "request"
    /\ call[c].snap.access # None
    /\ call[c].snap.expires # None
    /\ call[c].snap.expired
    /\ call[c].snap.refresh # None

\* C1: a request that begins with a refresh token and an access token past
\* its derived expiry issues a refresh first; a login follows only a failed
\* refresh, and the device call follows the authentication.
C1_RefreshBeforeLogin ==
    \A c \in Callers :
        (ExpiredWithRefresh(c) /\ call[c].pc \in {"device_wait", "done"}) =>
            /\ Len(call[c].log) >= 1
            /\ call[c].log[1] = "refresh"
            /\ \A i \in 2..Len(call[c].log) :
                   call[c].log[i] = "device" =>
                       SubSeq(call[c].log, 1, i - 1)
                           \in {<<"refresh">>, <<"refresh", "login">>}

\* C2: the first request of a freshly constructed client issues exactly one
\* login and no refresh, whatever the server answers.
C2_ExactlyOneLogin ==
    \A c \in Callers :
        (/\ Done(c, "request")
         /\ call[c].snap.access = None
         /\ call[c].snap.refresh = None
         /\ call[c].snap.user = None
         /\ call[c].snap.expires = None
         /\ call[c].snap.header = None) =>
            /\ Count(call[c].log, "login") = 1
            /\ Count(call[c].log, "refresh") = 0

\* C3: a request whose device call is answered 401 while a refresh token is
\* held performs one recovery (a refresh, then a login only if the refresh
\* failed) and, when the recovery succeeded, exactly one retry; nothing more.
C3_OneRecoveryOneRetry ==
    \A c \in Callers :
        (Done(c, "request") /\ call[c].recover) =>
            AfterFirstDevice(call[c].log)
                \in {<<"refresh", "device">>, <<"refresh", "login", "device">>,
                     <<"refresh", "login">>}

\* C5: every device call is sent while an access token is held and with the
\* header Authorization: Bearer <that access token>.
C5_BearerOnDeviceCall ==
    \A c \in Callers :
        call[c].sent # None =>
            /\ The(call[c].sent).tok # None
            /\ The(call[c].sent).auth
                   = Some(<<"Bearer", The(The(call[c].sent).tok)>>)

\* C6: after a successful login or refresh whose access token cannot be
\* decoded or has no exp claim, the stored expiry is unknown.
C6_UnknownExpiry ==
    \A c \in Callers :
        (/\ JustAuthenticated(c)
         /\ \/ Received(c) = None
            \/ The(Received(c)).jwt \in {"bad", "noexp"}) =>
            access_expires_at = None

\* C7 as stated: after a successful login or refresh whose access token has
\* the numeric exp claim E, the stored expiry is E - 60 and the token is
\* expired at time t exactly when t >= E - 60.
C7_ExpiryIsExpMinus60 ==
    \A c \in Callers :
        (/\ JustAuthenticated(c)
         /\ Received(c) # None
         /\ The(Received(c)).jwt = "exp") =>
            LET E == The(Received(c)).exp
            IN /\ access_expires_at = Some(E - 60)
               /\ \A t \in Times : IsTokenExpired(t) <=> t >= E - 60

\* C7 as amended: the same, when PyJWT is importable and E is not 0.
C7_ExpiryIsExpMinus60WithJwt ==
    \A c \in Callers :
        (/\ JustAuthenticated(c)
         /\ jwt
         /\ Received(c) # None
         /\ The(Received(c)).jwt = "exp"
         /\ The(Received(c)).exp # 0) =>
            LET E == The(Received(c)).exp
            IN /\ access_expires_at = Some(E - 60)
               /\ \A t \in Times : IsTokenExpired(t) <=> t >= E - 60

\* C7's case: a token with exp claim E was just received by a client with
\* PyJWT, and the clock stands at E - 60
C7_Witness ==
    \E c \in Callers :
        /\ JustAuthenticated(c)
        /\ jwt
        /\ Received(c) # None
        /\ The(Received(c)).jwt = "exp"
        /\ The(Received(c)).exp # 0
        /\ now = The(Received(c)).exp - 60

\* C8: a request whose gate had to authenticate with a refresh token held,
\* and in which no authentication succeeded, ends with the failure of the
\* login and sends no device call.
C8_AbortsWithLoginFailure ==
    \A c \in Callers :
        (/\ Done(c, "request")
         /\ call[c].snap.expired
         /\ call[c].snap.refresh # None
         /\ call[c].recv = None) =>
            /\ call[c].result = "IquaSoftenerException"
            /\ call[c].raiser = "_login"
            /\ Count(call[c].log, "device") = 0

\* C9: a refresh invoked while no refresh token is held ends with
\* IquaSoftenerException, issues no network call and leaves the token state
\* as it was.
C9_RefreshWithoutToken ==
    \A c \in Callers :
        (/\ call[c].pc = "done"
         /\ call[c].op \in {"refresh", "refresh_attr"}
         /\ call[c].snap.refresh = None) =>
            /\ call[c].result = "IquaSoftenerException"
            /\ call[c].log = <<>>
            /\ Untouched(c)

\* The field load_tokens fills from key k
FieldOf(k) ==
    CASE k = "access_token" -> access_token
      [] k = "refresh_token" -> refresh_token
      [] k = "user_id" -> user_id
      [] k = "_access_expires_at" -> access_expires_at

\* C10: load_tokens of the file save_tokens wrote restores the four fields
\* that were saved, absent fields included; and load_tokens of any JSON
\* object sets the fields of the missing keys to absent and the others to
\* the object's values.
C10_SaveLoadRoundTrip ==
    \A c \in Callers : \A p \in Paths :
        (Done(c, "load") /\ call[c].path = Some(p) /\ file[p] # None) =>
            /\ saved[p] # None => TokenFields = The(saved[p])
            /\ \A k \in Keys :
                   IF k \in DOMAIN The(file[p])
                   THEN \/ The(file[p])[k] = <<"null">> /\ FieldOf(k) = None
                        \/ /\ The(file[p])[k] # <<"null">>
                           /\ FieldOf(k) = {The(file[p])[k][2]}
                   ELSE FieldOf(k) = None

\* C10's case: a load has restored a saved state that has an expiry and an
\* absent field, over a different state
C10_Witness ==
    \E c \in Callers : \E p \in Paths :
        /\ Done(c, "load")
        /\ call[c].path = Some(p)
        /\ saved[p] # None
        /\ The(saved[p]).expires # None
        /\ The(saved[p]).refresh = None
        /\ call[c].snap.expires # The(saved[p]).expires
        /\ call[c].snap.refresh # None

\* A request begun after the server recovered has returned a response
Succeeded ==
    \E c \in Callers :
        Done(c, "request") /\ call[c].snap.healthy /\ call[c].result = "ok"

\* C4: there is no terminal logged-out state: whatever the token state when
\* the server recovers, a later request succeeds.
C4_EventuallySucceeds == [](server_ok => <>Succeeded)

\* c runs _get_device_id on its own, and it has returned or raised
GetDeviceIdDone(c) ==
    call[c].pc = "done" /\ call[c].outer = "get_device_id"

\* The positions of the devices of a list that carry the configured serial
Matching(devices) ==
    {i \in 1..Len(devices) : devices[i].serial = DeviceSerial}

\* C11: once a device id is cached it never changes, whatever operation
\* runs: a later _get_device_id (on its own or inside the valve command)
\* returns the cached id at once and sends no request for the device list.
C11_CachedIdNeverChanges ==
    [][device_id # None =>
          /\ device_id' = device_id
          /\ \A c \in Callers :
                (/\ Ready(c)
                 /\ call'[c] # call[c]
                 /\ call'[c].outer # "none"
                 /\ call'[c].result # "ValueError") =>
                    /\ call'[c].stage # "resolve"
                    /\ call'[c].value = device_id
                    /\ call'[c].outer = "get_device_id" =>
                          /\ call'[c].pc = "done"
                          /\ call'[c].result = "ok"
                          /\ call'[c].log = <<>>]_vars

\* _get_device_id has answered from the cache, after a request of an
\* earlier call resolved the id
C11_Witness ==
    /\ GetDeviceIdDone("A")
    /\ call["A"].op = "get_device_id"
    /\ call["A"].result = "ok"
    /\ call["A"].value = device_id
    /\ device_id = Some("d2")

\* C12: _get_device_id with an empty cache, over a list with exactly one
\* device of the configured serial, returns and caches that device's id;
\* over a list with no such device it raises the not-found error and the
\* cache stays empty, so the next call asks for the list again.
C12_ResolveFromList ==
    \A c \in Callers :
        (GetDeviceIdDone(c) /\ call[c].devices # None) =>
            LET devices == The(call[c].devices)
                m == Matching(devices)
            IN /\ call[c].snap.device = None
               /\ Cardinality(m) = 1 =>
                     /\ call[c].result = "ok"
                     /\ \A i \in m : call[c].value = Some(devices[i].id)
                     /\ device_id = call[c].value
               /\ m = {} =>
                     /\ call[c].result = "IquaSoftenerException"
                     /\ call[c].raiser = "_get_device_id"
                     /\ call[c].value = None
                     /\ device_id = None
                     /\ ~CacheHit(device_id)

\* The id was resolved from a list whose second device is the only one of
\* the configured serial
C12_Witness ==
    /\ GetDeviceIdDone("A")
    /\ call["A"].devices # None
    /\ Len(The(call["A"].devices)) = 2
    /\ Matching(The(call["A"].devices)) = {2}
    /\ call["A"].result = "ok"

\* C13: a request returns a response only when the status of its last
\* device call is 200; with any other status it ends with an HTTPError.
C13_ReturnsOnly200 ==
    \A c \in Callers :
        (Done(c, "request") /\ call[c].status # None) =>
            /\ call[c].result = "ok" => call[c].status = Some(200)
            /\ call[c].status # Some(200) => call[c].result = "HTTPError"

\* The gate of c's request found an access token of unknown expiry
UnknownExpiryAtGate(c) ==
    /\ call[c].op = "request"
    /\ call[c].pc # "gate"
    /\ call[c].snap.access # None
    /\ call[c].snap.expires = None

\* C14: a request whose gate finds an access token held and no stored
\* expiry issues no login and no refresh before its device call, at any
\* time: the gate lets the request through to the device call.
C14_UnknownExpiryIsValid ==
    \A c \in Callers :
        UnknownExpiryAtGate(c) =>
            /\ ~call[c].snap.expired
            /\ Count(call[c].log, "login") = 0
            /\ Count(call[c].log, "refresh") = 0
            /\ call[c].pc = "done" => call[c].log = <<"device">>

\* Such a request has sent its device call at the latest time of the model
C14_Witness ==
    /\ UnknownExpiryAtGate("A")
    /\ call["A"].pc = "done"
    /\ call["A"].log = <<"device">>
    /\ now = MaxTime

\* The callers with a login or refresh request in flight
Authenticating ==
    {c \in Callers : call[c].pc \in {"login_wait", "refresh_wait"}}

\* C15: two callers that run _request at once on a client without a valid
\* token never have two login or refresh calls in flight at the same time.
C15_AuthenticationCollapsed == Cardinality(Authenticating) <= 1

\* C16: when the device call of a request is answered 401 and no refresh
\* token is held, the request ends there with the HTTPError of the 401: no
\* login, refresh or retry is issued, and the token fields and the
\* Authorization header stay as they are.
C16_NoRecoveryWithoutRefreshToken ==
    [][\A c \in Callers :
          (/\ call[c].op = "request"
           /\ call[c].pc = "device_wait"
           /\ call'[c].pc # "device_wait"
           /\ call'[c].status = Some(401)
           /\ refresh_token = None) =>
              /\ call'[c].pc = "done"
              /\ call'[c].result = "HTTPError"
              /\ ~call'[c].recover
              /\ call'[c].log = call[c].log
              /\ UNCHANGED <<tokenVars, auth_header>>]_vars

\* A request of a client with an access token and no refresh token has
\* ended on a 401
C16_Witness ==
    /\ Done("A", "request")
    /\ call["A"].status = Some(401)
    /\ call["A"].result = "HTTPError"
    /\ call["A"].log = <<"device">>
    /\ access_token # None
    /\ refresh_token = None

\* This step is a login or refresh of c that fails: the POST of a login is
\* answered with a failure (it is tried again or raises), the POST of a
\* refresh is, the refresh method raises for want of a refresh token, or
\* self._refresh_token() raises
FailedAuthStep(c) ==
    /\ call'[c] # call[c]
    /\ \/ call[c].pc = "login_wait" /\ call'[c].pc # "send"
       \/ call[c].pc = "refresh_wait" /\ call'[c].result # "ok"
       \/ /\ Ready(c)
          /\ call'[c].op = "refresh"
          /\ call'[c].result = "IquaSoftenerException"
       \/ /\ call[c].pc # "done"
          /\ call'[c].pc = "done"
          /\ call'[c].raiser = "self._refresh_token()"

\* C17: a login or refresh that fails leaves the access token, the refresh
\* token, the user id, the stored expiry and the Authorization header as
\* they were.
C17_FailedAuthKeepsTokens ==
    [][\A c \in Callers :
          FailedAuthStep(c) => UNCHANGED <<tokenVars, auth_header>>]_vars

\* The login of a request failed while the client held an expired access
\* token and its header, and still holds them
C17_Witness ==
    /\ Done("A", "request")
    /\ call["A"].raiser = "_login"
    /\ call["A"].log = <<"login", "login">>
    /\ access_token # None
    /\ auth_header # None
    /\ Untouched("A")

\* The network calls of a request that precede its first device call
BeforeFirstDevice(log) ==
    IF Count(log, "device") = 0 THEN log
    ELSE SubSeq(log, 1, Len(log) - Len(AfterFirstDevice(log)) - 1)

\* At most one refresh and one login among the calls of log
OneRefreshOneLogin(log) ==
    /\ Count(log, "refresh") <= 1
    /\ Count(log, "login") <= 1

\* C18: a request issues at most two device calls and at most four
\* authentication calls: at most one refresh and one login in the gate, and
\* at most one refresh and one login in the recovery of a 401.
C18_BoundedCalls ==
    \A c \in Callers :
        call[c].op = "request" =>
            /\ Count(call[c].log, "device") <= 2
            /\ Count(call[c].log, "login") + Count(call[c].log, "refresh") <= 4
            /\ OneRefreshOneLogin(BeforeFirstDevice(call[c].log))
            /\ Count(call[c].log, "device") > 0 =>
                   OneRefreshOneLogin(AfterFirstDevice(call[c].log))

\* C19: set_water_shutoff_valve with a state other than 0 and 1 raises
\* ValueError at once, with no network call and no change of the client;
\* the command sent for state 1 has the action 'close', the one sent for
\* state 0 the action 'open'.
C19_ValveStateChecked ==
    [][\A c \in Callers :
          /\ (/\ call'[c] # call[c]
              /\ call'[c].outer = "set_water_shutoff_valve"
              /\ call'[c].arg \notin {Some(0), Some(1)}) =>
                 /\ Ready(c)
                 /\ call'[c].pc = "done"
                 /\ call'[c].result = "ValueError"
                 /\ call'[c].log = <<>>
                 /\ call'[c].sent = None
                 /\ UNCHANGED <<clientVars, device_id, file>>
          /\ call'[c].action # None =>
                 /\ call'[c].stage = "command"
                 /\ call'[c].arg = Some(1) => call'[c].action = Some("close")
                 /\ call'[c].arg = Some(0) => call'[c].action = Some("open")
                 /\ call'[c].arg \in {Some(0), Some(1)}]_vars

\* set_water_shutoff_valve(1) has sent its command and the server has
\* answered 200
C19_Witness ==
    /\ call["A"].pc = "done"
    /\ call["A"].outer = "set_water_shutoff_valve"
    /\ call["A"].arg = Some(1)
    /\ call["A"].action = Some("close")
    /\ call["A"].result = "ok"
    /\ call["A"].status = Some(200)

====
